---- MODULE Spec2Model ----
(***************************************************************************)
(* Hybrid search service (src/server.py): the FastAPI process, its         *)
(* HybridSearchEngine and the POST /search handler.                        *)
(*                                                                         *)
(* Strings of the program (query, content) are sequences of one-character  *)
(* strings.  Scores are exact rationals <<numerator, denominator>> with a  *)
(* positive denominator.  An optional value (Python None or a value) is a  *)
(* sequence of length 0 or 1.                                              *)
(***************************************************************************)
EXTENDS Integers, Sequences, FiniteSets, TLC

\* ------------------------------------------------------------------ bounds

\* Largest top_k a request carries.
MaxTopK == 2

\* Raw BM25 scores of the normalizer's specification range over
\* -MaxRawScore..MaxRawScore.
MaxRawScore == 3

\* Longest content and largest max_length handed to _create_summary in the
\* summary's own specification.
MaxContentLen == 6
MaxSummaryLimit == 4

\* Largest set of document ids whose every iteration order is explored; a
\* larger set is iterated in one order.
MaxPermuted == 4

\* ------------------------------------------------------- program constants

\* _rrf_fusion(..., k: int = 60)
RrfK == 60

\* _create_summary(..., max_length: int = 100)
SummaryMaxLength == 100

\* --------------------------------------------------------------- rationals

Rat(n, d) == <<n, d>>

RatLess(a, b) == a[1] * b[2] < b[1] * a[2]

RatEq(a, b) == a[1] * b[2] = b[1] * a[2]

RatLeq(a, b) == a[1] * b[2] <= b[1] * a[2]

RatAdd(a, b) == <<a[1] * b[2] + b[1] * a[2], a[2] * b[2]>>

\* ----------------------------------------------------------------- helpers

Range(s) == {s[i] : i \in DOMAIN s}

Min(a, b) == IF a <= b THEN a ELSE b

\* [c] * n
Rep(c, n) == [i \in 1..n |-> c]

\* All orderings of a finite set, as sequences without repetition.
Orderings(S) ==
    {s \in [1..Cardinality(S) -> S] : \A i, j \in DOMAIN s : i # j => s[i] # s[j]}

RECURSIVE SetToSeq(_)
SetToSeq(S) ==
    IF S = {} THEN <<>>
    ELSE LET x == CHOOSE x \in S : TRUE IN <<x>> \o SetToSeq(S \ {x})

\* The orders in which a for loop may meet the members of a Python set.
IterationOrders(S) ==
    IF Cardinality(S) <= MaxPermuted THEN Orderings(S) ELSE {SetToSeq(S)}

\* Python's s[:n] for n >= 0.
Take(s, n) == SubSeq(s, 1, Min(n, Len(s)))

\* No value (None) and a present value.
None == <<>>

Some(x) == <<x>>

\* list.sort(key=lambda x: x['score'], reverse=True): a stable sort, elements of
\* equal score keep their order.
SortByScoreDesc(list) ==
    LET n == Len(list)
        \* The place of list[i]: behind every entry of a greater score and
        \* behind the earlier entries of an equal score.
        place(i) == 1 + Cardinality({j \in 1..n :
                                       \/ RatLess(list[i].score, list[j].score)
                                       \/ j < i /\ RatEq(list[j].score, list[i].score)})
    IN [p \in 1..n |-> list[CHOOSE i \in 1..n : place(i) = p]]

\* The range of the top_k slider of the UI.
UiMinTopK == 5
UiMaxTopK == 50

\* ------------------------------------------------------------ stored posts

\* The sentence terminator _create_summary splits on (U+3002, the ideographic
\* full stop), written here as one ASCII character that is not the "." of the
\* ellipsis.
Terminator == "/"

Ellipsis == <<".", ".", ".">>

\* Posts as the crawler stores them: id, title, content (author, url and
\* timestamp travel with title through every step and are not repeated).
Post(id, title, content) == [id |-> id, title |-> title, content |-> content]

LongContent == Rep("x", 60) \o <<Terminator>> \o Rep("y", 60)

PostA == Post("A", <<"t", "A">>, <<"a", "a", "a", "a", "a", "a", Terminator>>)

PostB == Post("B", <<"t", "B">>, <<"b">>)

PostC == Post("C", <<"t", "C">>, LongContent)

PostD == Post("D", <<"t", "D">>, <<>>)

\* A second crawl of thread B (same id, edited content).
PostB2 == Post("B", <<"t", "B">>, <<"b", "2">>)

\* build_vector_index: the stored document is title and content joined by a
\* newline, or the title twice when the content has at most 5 characters.
ChromaDocument(post) ==
    IF Len(post.content) > 5
    THEN post.title \o <<"\n">> \o post.content
    ELSE post.title \o <<"\n">> \o post.title

\* The index bundles on disk when the server starts: the posts of the vector
\* collection and the position-indexed BM25 document mapping.  The two are
\* built by separate scripts and may cover different posts; a crawl may hold
\* the same thread twice.
Bundles ==
    { [collection |-> {PostA, PostB, PostC}, doc_mapping |-> <<PostA, PostB, PostC>>],
      [collection |-> {PostA, PostB},        doc_mapping |-> <<PostB, PostD, PostB2>>] }

\* ------------------------------------------------------ summary generation

\* content.split(Terminator)
RECURSIVE Split(_)
Split(s) ==
    IF \A i \in DOMAIN s : s[i] # Terminator THEN <<s>>
    ELSE LET i == CHOOSE i \in DOMAIN s :
                      s[i] = Terminator /\ \A j \in 1..(i - 1) : s[j] # Terminator
         IN <<SubSeq(s, 1, i - 1)>> \o Split(SubSeq(s, i + 1, Len(s)))

\* Variant of Accumulate: the test leaves no room for the terminator.
RECURSIVE AccumulateNoRoom(_, _, _)
AccumulateNoRoom(sentences, summary, max_length) ==
    IF sentences = <<>> THEN summary
    ELSE LET sentence == Head(sentences) IN
         IF Len(summary) + Len(sentence) <= max_length
         THEN AccumulateNoRoom(Tail(sentences),
                               IF summary # <<>>
                               THEN summary \o <<Terminator>> \o sentence
                               ELSE sentence,
                               max_length)
         ELSE summary

\* The for loop of _create_summary, with its break.
RECURSIVE Accumulate(_, _, _)
Accumulate(sentences, summary, max_length) ==
    IF sentences = <<>> THEN summary
    ELSE LET sentence == Head(sentences) IN
         IF Len(summary) + Len(sentence) + 1 <= max_length
         THEN Accumulate(Tail(sentences),
                         IF summary # <<>>
                         THEN summary \o <<Terminator>> \o sentence
                         ELSE sentence,
                         max_length)
         ELSE summary

\* Variant of CreateSummary: short content is cut at a sentence boundary too.
CreateSummaryAlwaysCut(content, max_length) ==
    IF content = <<>> THEN <<>>
    ELSE LET summary == Accumulate(Split(content), <<>>, max_length) IN
         IF summary # <<>> THEN summary \o <<Terminator>>
         ELSE Take(content, max_length) \o Ellipsis

CreateSummary(content, max_length) ==
    IF content = <<>> THEN <<>>
    ELSE IF Len(content) <= max_length THEN content
    ELSE LET summary == Accumulate(Split(content), <<>>, max_length) IN
         IF summary # <<>> THEN summary \o <<Terminator>>
         ELSE Take(content, max_length) \o Ellipsis

\* ------------------------------------------------------------ text helpers

IsWhite(c) == c \in {" ", "\n", "\t"}

\* str.strip()
RECURSIVE Strip(_)
Strip(s) ==
    IF s = <<>> THEN s
    ELSE IF IsWhite(Head(s)) THEN Strip(Tail(s))
    ELSE IF IsWhite(s[Len(s)]) THEN Strip(SubSeq(s, 1, Len(s) - 1))
    ELSE s

\* str.isspace(): at least one character and all of them whitespace.
IsSpace(s) == s # <<>> /\ \A i \in DOMAIN s : IsWhite(s[i])

\* The ways to cut a text into consecutive non-empty pieces: what the
\* segmenter may answer for it.
RECURSIVE Segmentations(_)
Segmentations(s) ==
    IF s = <<>> THEN {<<>>}
    ELSE UNION { { <<SubSeq(s, 1, i)>> \o rest : rest \in Segmentations(SubSeq(s, i + 1, Len(s))) }
                 : i \in 1..Len(s) }

\* The token filter of _keyword_search: strip, keep tokens longer than one
\* character that are not whitespace.
RECURSIVE FilterTokens(_)
FilterTokens(tokenized_query) ==
    IF tokenized_query = <<>> THEN <<>>
    ELSE LET token == Strip(Head(tokenized_query)) IN
         (IF Len(token) > 1 /\ ~IsSpace(token) THEN <<token>> ELSE <<>>)
             \o FilterTokens(Tail(tokenized_query))

\* ------------------------------------------------------ retrieval adapters

\* Distances the vector store reports and raw scores the BM25 model reports.
Distances == {0, 1}

RawScores == {-3, 0, 3}

\* similarity_score = 1.0 / (1.0 + distance) if distance > 0 else 1.0
SimilarityScore(distance) ==
    IF distance > 0 THEN Rat(1, 1 + distance) ELSE Rat(1, 1)

\* normalized_score = max(0.0, min(1.0, (score + 2) / 4))
RatMin(a, b) == IF RatLess(b, a) THEN b ELSE a

RatMax(a, b) == IF RatLess(a, b) THEN b ELSE a

\* Variant of NormalizedScore: the linear map without the clamp.
NormalizedScoreNoClamp(score) == Rat(score + 2, 4)

NormalizedScore(score) == RatMax(Rat(0, 1), RatMin(Rat(1, 1), Rat(score + 2, 4)))

\* What collection.query may answer for n_results = n: up to n distinct posts
\* of the collection, nearest first, each with its distance.
QueryResults(collection, n) ==
    UNION { { [i \in 1..len |-> [post |-> ps[i], distance |-> ds[i]]] :
                ps \in {p \in [1..len -> collection] :
                          \A i, j \in 1..len : i # j => p[i] # p[j]},
                ds \in {d \in [1..len -> Distances] :
                          \A i, j \in 1..len : i <= j => d[i] <= d[j]} }
            : len \in 0..Min(n, Cardinality(collection)) }

\* The formatting loop of _vector_search.
VectorResults(results) ==
    [i \in 1..Len(results) |->
        [id          |-> results[i].post.id,
         title       |-> results[i].post.title,
         content     |-> ChromaDocument(results[i].post),
         score       |-> SimilarityScore(results[i].distance),
         search_type |-> "vector"]]

\* np.argsort(scores)[::-1][:top_k]: the positions in descending order of
\* score; the order among equal scores is the sort routine's.
TopIndices(scores, top_k) ==
    { Take(idx, top_k) :
        idx \in {o \in Orderings(DOMAIN scores) :
                   \A i, j \in DOMAIN o : i <= j => scores[o[i]] >= scores[o[j]]} }

\* The formatting loop of _keyword_search (positions are 1-based here, so
\* idx < len(mapping) reads idx <= Len(mapping)).
RECURSIVE KeywordResults(_, _, _)
KeywordResults(top_indices, scores, doc_mapping) ==
    IF top_indices = <<>> THEN <<>>
    ELSE LET idx == Head(top_indices) IN
         (IF idx <= Len(doc_mapping)
          THEN << [id          |-> doc_mapping[idx].id,
                   title       |-> doc_mapping[idx].title,
                   content     |-> doc_mapping[idx].content,
                   score       |-> NormalizedScore(scores[idx]),
                   search_type |-> "keyword"] >>
          ELSE <<>>)
             \o KeywordResults(Tail(top_indices), scores, doc_mapping)

\* ------------------------------------------------------------------ fusion

Ids(results) == {results[i].id : i \in DOMAIN results}

\* Variant of Ranks: positions are counted from 0.
RanksFromZero(results) ==
    [doc_id \in Ids(results) |->
        (CHOOSE rank \in DOMAIN results :
            /\ results[rank].id = doc_id
            /\ \A later \in DOMAIN results : results[later].id = doc_id => later <= rank) - 1]

\* for rank, result in enumerate(results, 1): ranks[result['id']] = rank
\* (a later hit with the same id overwrites the rank of an earlier one).
Ranks(results) ==
    [doc_id \in Ids(results) |->
        CHOOSE rank \in DOMAIN results :
            /\ results[rank].id = doc_id
            /\ \A later \in DOMAIN results : results[later].id = doc_id => later <= rank]

\* The first hit of a list with the given id (the for ... break loops).
FirstWithId(results, doc_id) ==
    results[CHOOSE i \in DOMAIN results :
                /\ results[i].id = doc_id
                /\ \A j \in 1..(i - 1) : results[j].id # doc_id]

\* Variant of PenaltyRank: the absent document is ranked k, not k + 1.
PenaltyRankK(k) == k

\* The rank a document absent from a modality is given.
PenaltyRank(k) == k + 1

\* Variant of RrfEntry: the rank used in the score is reported, penalty
\* rank included.
RrfEntryReportsPenalty(doc_id, vector_results, keyword_results, k) ==
    LET vector_ranks  == Ranks(vector_results)
        keyword_ranks == Ranks(keyword_results)
        vector_rank   == IF doc_id \in DOMAIN vector_ranks
                         THEN vector_ranks[doc_id] ELSE PenaltyRank(k)
        keyword_rank  == IF doc_id \in DOMAIN keyword_ranks
                         THEN keyword_ranks[doc_id] ELSE PenaltyRank(k)
        vector_score  == Rat(1, k + vector_rank)
        keyword_score == Rat(1, k + keyword_rank)
        doc_info      == IF doc_id \in Ids(vector_results)
                         THEN FirstWithId(vector_results, doc_id)
                         ELSE FirstWithId(keyword_results, doc_id)
    IN [id            |-> doc_id,
        title         |-> doc_info.title,
        content       |-> doc_info.content,
        score         |-> RatAdd(vector_score, keyword_score),
        vector_score  |-> vector_score,
        keyword_score |-> keyword_score,
        vector_rank   |-> Some(vector_rank),
        keyword_rank  |-> Some(keyword_rank)]

\* One entry of rrf_scores.
RrfEntry(doc_id, vector_results, keyword_results, k) ==
    LET vector_ranks  == Ranks(vector_results)
        keyword_ranks == Ranks(keyword_results)
        vector_rank   == IF doc_id \in DOMAIN vector_ranks
                         THEN vector_ranks[doc_id] ELSE PenaltyRank(k)
        keyword_rank  == IF doc_id \in DOMAIN keyword_ranks
                         THEN keyword_ranks[doc_id] ELSE PenaltyRank(k)
        vector_score  == Rat(1, k + vector_rank)
        keyword_score == Rat(1, k + keyword_rank)
        doc_info      == IF doc_id \in Ids(vector_results)
                         THEN FirstWithId(vector_results, doc_id)
                         ELSE FirstWithId(keyword_results, doc_id)
    IN [id            |-> doc_id,
        title         |-> doc_info.title,
        content       |-> doc_info.content,
        score         |-> RatAdd(vector_score, keyword_score),
        vector_score  |-> vector_score,
        keyword_score |-> keyword_score,
        vector_rank   |-> IF doc_id \in DOMAIN vector_ranks THEN Some(vector_rank) ELSE None,
        keyword_rank  |-> IF doc_id \in DOMAIN keyword_ranks THEN Some(keyword_rank) ELSE None]

\* all_doc_ids = set(list(vector_ranks.keys()) + list(keyword_ranks.keys()))
AllDocIds(vector_results, keyword_results) ==
    Ids(vector_results) \cup Ids(keyword_results)

\* Variant of RrfFusion: the sorted list is returned whole.
RrfFusionNoTruncate(vector_results, keyword_results, top_k, k, order) ==
    SortByScoreDesc([i \in DOMAIN order |->
                        RrfEntry(order[i], vector_results, keyword_results, k)])

\* Variant of RrfFusion: the list is truncated without being sorted.
RrfFusionUnsorted(vector_results, keyword_results, top_k, k, order) ==
    Take([i \in DOMAIN order |->
             RrfEntry(order[i], vector_results, keyword_results, k)], top_k)

\* _rrf_fusion, given the order in which the for loop meets the members of the
\* set all_doc_ids (Python fixes no iteration order for a set of strings).
RrfFusion(vector_results, keyword_results, top_k, k, order) ==
    LET rrf_scores == [i \in DOMAIN order |->
                          RrfEntry(order[i], vector_results, keyword_results, k)]
    IN Take(SortByScoreDesc(rrf_scores), top_k)

\* Variant of WeightedFusion: each modality's contribution is weighted 0.5.
WeightedFusionHalved(vector_results, keyword_results, top_k, order) ==
    LET fused == RrfFusion(vector_results, keyword_results, top_k, RrfK, order)
    IN [i \in DOMAIN fused |->
           [fused[i] EXCEPT !.score = Rat(fused[i].score[1], 2 * fused[i].score[2])]]

\* elif fusion_method == "weighted": the same call of _rrf_fusion.
WeightedFusion(vector_results, keyword_results, top_k, order) ==
    RrfFusion(vector_results, keyword_results, top_k, RrfK, order)

\* all_results[result['id']] = result: a dict keeps the position of a key's
\* first insertion and the value of its last.
DictSet(all_results, result) ==
    IF result.id \in Ids(all_results)
    THEN [i \in DOMAIN all_results |->
             IF all_results[i].id = result.id THEN result ELSE all_results[i]]
    ELSE Append(all_results, result)

RECURSIVE InsertVector(_, _)
InsertVector(all_results, vector_results) ==
    IF vector_results = <<>> THEN all_results
    ELSE InsertVector(DictSet(all_results, Head(vector_results)), Tail(vector_results))

\* Variant of InsertKeyword: a keyword hit replaces the entry of its id.
InsertKeywordOverwrite(all_results, keyword_results) ==
    InsertVector(all_results, keyword_results)

\* Variant of InsertKeyword: keyword hits are added without the membership test.
InsertKeywordNoCheck(all_results, keyword_results) == all_results \o keyword_results

RECURSIVE InsertKeyword(_, _)
InsertKeyword(all_results, keyword_results) ==
    IF keyword_results = <<>> THEN all_results
    ELSE InsertKeyword(IF Head(keyword_results).id \notin Ids(all_results)
                       THEN DictSet(all_results, Head(keyword_results))
                       ELSE all_results,
                       Tail(keyword_results))

\* The else branch of search: merge, vector results first, sort, truncate.
SimpleMerge(vector_results, keyword_results, top_k) ==
    LET all_results == InsertKeyword(InsertVector(<<>>, vector_results), keyword_results)
    IN Take(SortByScoreDesc(all_results), top_k)

\* for result in fused_results: result['summary'] = self._create_summary(...)
AddSummaries(fused_results) ==
    [i \in DOMAIN fused_results |->
        ("summary" :> CreateSummary(fused_results[i].content, SummaryMaxLength))
            @@ fused_results[i]]

\* The SearchResult the handler builds from one result of the engine.
SearchResult(result) ==
    [id      |-> result.id,
     title   |-> result.title,
     content |-> result.content,
     score   |-> result.score,
     summary |-> result.summary]

\* ------------------------------------------------------------------- state

VARIABLES
    phase,            \* the process: "starting", "serving" or "exited"
    search_engine,    \* the global search_engine: None or Some(engine)
    pc,               \* where the /search handler stands
    request,          \* the SearchRequest being handled
    vector_results,   \* search(): vector_results
    keyword_results,  \* search(): keyword_results
    fused_results,    \* search(): fused_results
    response,         \* what the handler answered: None or Some(response)
    calls             \* the calls made for this request, in order

vars == <<phase, search_engine, pc, request, vector_results, keyword_results,
          fused_results, response, calls>>

\* The requests a client may send.
Queries == {<<>>, <<" ">>, <<"a">>, <<"a", "b", " ">>}

TopKs == 1..MaxTopK

FusionMethods == {"rrf", "weighted", "simple", "bogus"}

Components == {"embedding_model", "chroma", "bm25"}

\* Variant of IsBlank: only the empty query is blank.
IsBlankNoStrip(query) == query = <<>>

\* if not request.query or not request.query.strip()
IsBlank(query) == query = <<>> \/ Strip(query) = <<>>

\* Variant of CandidateCount: the adapters are asked for top_k candidates.
CandidateCountNoOvershoot(top_k) == top_k

\* search() asks each adapter for top_k * 2 candidates.
CandidateCount(top_k) == top_k * 2

NoRequest == [query |-> <<>>, top_k |-> 0, fusion_method |-> ""]

Call(op, arg) == [op |-> op, arg |-> arg]

\* HybridSearchEngine.__init__ and _initialize_components on a bundle.
HybridSearchEngine(bundle) ==
    [collection       |-> bundle.collection,
     bm25_model       |-> [corpus_size |-> Len(bundle.doc_mapping)],
     bm25_doc_mapping |-> bundle.doc_mapping]

engine == search_engine[1]

Init ==
    /\ phase = "starting"
    /\ search_engine = None
    /\ pc = "idle"
    /\ request = NoRequest
    /\ vector_results = <<>>
    /\ keyword_results = <<>>
    /\ fused_results = <<>>
    /\ response = None
    /\ calls = <<>>

\* startup_event: every component loads and the server starts serving.
StartupOk ==
    /\ phase = "starting"
    /\ \E bundle \in Bundles : search_engine' = Some(HybridSearchEngine(bundle))
    /\ phase' = "serving"
    /\ UNCHANGED <<pc, request, vector_results, keyword_results, fused_results,
                   response, calls>>

\* startup_event: a component fails to load, _initialize_components raises,
\* startup_event re-raises and the server exits without serving.
StartupFailed ==
    /\ phase = "starting"
    /\ \E component \in Components : calls' = <<Call("startup_failed", component)>>
    /\ phase' = "exited"
    /\ UNCHANGED <<search_engine, pc, request, vector_results, keyword_results,
                   fused_results, response>>

\* POST /search, up to the call of search_engine.search.
Receive ==
    /\ phase = "serving"
    /\ pc = "idle"
    /\ \E query \in Queries, top_k \in TopKs, fusion_method \in FusionMethods :
         request' = [query |-> query, top_k |-> top_k, fusion_method |-> fusion_method]
    /\ calls' = <<>>
    /\ IF search_engine = None
       THEN /\ response' = Some([status |-> 503])
            /\ pc' = "done"
       ELSE IF IsBlank(request'.query)
       THEN /\ response' = Some([status |-> 400])
            /\ pc' = "done"
       ELSE /\ response' = None
            /\ pc' = "vector_search"
    /\ UNCHANGED <<phase, search_engine, vector_results, keyword_results, fused_results>>

\* self._vector_search(query, top_k=top_k * 2): the backend answers.
VectorSearch ==
    /\ pc = "vector_search"
    /\ LET top_k == CandidateCount(request.top_k) IN
       /\ \E results \in QueryResults(engine.collection, top_k) :
            vector_results' = VectorResults(results)
       /\ calls' = Append(calls, Call("_vector_search", top_k))
    /\ pc' = "keyword_search"
    /\ UNCHANGED <<phase, search_engine, request, keyword_results, fused_results, response>>

\* Variant of VectorSearchFailed: the exception leaves _vector_search and
\* search, and the handler answers 500.
VectorSearchRaises ==
    /\ pc = "vector_search"
    /\ calls' = calls \o <<Call("_vector_search", CandidateCount(request.top_k)),
                           Call("vector_search_failed", 0)>>
    /\ response' = Some([status |-> 500])
    /\ pc' = "done"
    /\ UNCHANGED <<phase, search_engine, request, vector_results, keyword_results,
                   fused_results>>

\* self._vector_search(query, top_k=top_k * 2): the embedding model or the
\* vector store raises; the except branch returns [].
VectorSearchFailed ==
    /\ pc = "vector_search"
    /\ vector_results' = <<>>
    /\ calls' = calls \o <<Call("_vector_search", CandidateCount(request.top_k)),
                           Call("vector_search_failed", 0)>>
    /\ pc' = "keyword_search"
    /\ UNCHANGED <<phase, search_engine, request, keyword_results, fused_results, response>>

\* self._keyword_search(query, top_k=top_k * 2): tokens survive the filter and
\* the BM25 model scores every document.
KeywordSearch ==
    /\ pc = "keyword_search"
    /\ LET top_k == CandidateCount(request.top_k) IN
       \E tokenized_query \in Segmentations(request.query) :
         LET filtered_tokens == FilterTokens(tokenized_query) IN
         /\ filtered_tokens # <<>>
         /\ \E scores \in [1..engine.bm25_model.corpus_size -> RawScores] :
              \E top_indices \in TopIndices(scores, top_k) :
                keyword_results' = KeywordResults(top_indices, scores, engine.bm25_doc_mapping)
         /\ calls' = calls \o <<Call("_keyword_search", top_k),
                                Call("get_scores", filtered_tokens)>>
    /\ pc' = "fusion"
    /\ UNCHANGED <<phase, search_engine, request, vector_results, fused_results, response>>

\* Variant of KeywordSearchNoTokens: the empty token list is handed to the
\* BM25 model.
KeywordSearchNoTokensScored ==
    /\ pc = "keyword_search"
    /\ \E tokenized_query \in Segmentations(request.query) :
         FilterTokens(tokenized_query) = <<>>
    /\ keyword_results' = <<>>
    /\ calls' = calls \o <<Call("_keyword_search", CandidateCount(request.top_k)),
                           Call("get_scores", <<>>)>>
    /\ pc' = "fusion"
    /\ UNCHANGED <<phase, search_engine, request, vector_results, fused_results, response>>

\* self._keyword_search: no token survives the filter; return [] without
\* scoring.
KeywordSearchNoTokens ==
    /\ pc = "keyword_search"
    /\ \E tokenized_query \in Segmentations(request.query) :
         FilterTokens(tokenized_query) = <<>>
    /\ keyword_results' = <<>>
    /\ calls' = Append(calls, Call("_keyword_search", CandidateCount(request.top_k)))
    /\ pc' = "fusion"
    /\ UNCHANGED <<phase, search_engine, request, vector_results, fused_results, response>>

\* self._keyword_search: the segmenter or the BM25 model raises; the except
\* branch returns [].
KeywordSearchFailed ==
    /\ pc = "keyword_search"
    /\ keyword_results' = <<>>
    /\ calls' = calls \o <<Call("_keyword_search", CandidateCount(request.top_k)),
                           Call("keyword_search_failed", 0)>>
    /\ pc' = "fusion"
    /\ UNCHANGED <<phase, search_engine, request, vector_results, fused_results, response>>

\* if fusion_method == "rrf":
FuseRrf ==
    /\ pc = "fusion"
    /\ request.fusion_method = "rrf"
    /\ \E order \in IterationOrders(AllDocIds(vector_results, keyword_results)) :
         fused_results' = RrfFusion(vector_results, keyword_results,
                                    request.top_k, RrfK, order)
    /\ calls' = Append(calls, Call("_rrf_fusion", request.top_k))
    /\ pc' = "summary"
    /\ UNCHANGED <<phase, search_engine, request, vector_results, keyword_results, response>>

\* elif fusion_method == "weighted":
FuseWeighted ==
    /\ pc = "fusion"
    /\ request.fusion_method = "weighted"
    /\ \E order \in IterationOrders(AllDocIds(vector_results, keyword_results)) :
         fused_results' = WeightedFusion(vector_results, keyword_results,
                                         request.top_k, order)
    /\ calls' = Append(calls, Call("_rrf_fusion", request.top_k))
    /\ pc' = "summary"
    /\ UNCHANGED <<phase, search_engine, request, vector_results, keyword_results, response>>

\* Variant of FuseSimple: the merge also runs before _keyword_search.
FuseSimpleEarly ==
    /\ pc \in {"keyword_search", "fusion"}
    /\ request.fusion_method \notin {"rrf", "weighted"}
    /\ fused_results' = SimpleMerge(vector_results, keyword_results, request.top_k)
    /\ calls' = Append(calls, Call("simple_merge", request.top_k))
    /\ pc' = "summary"
    /\ UNCHANGED <<phase, search_engine, request, vector_results, keyword_results, response>>

\* else:  (every other fusion_method)
FuseSimple ==
    /\ pc = "fusion"
    /\ request.fusion_method \notin {"rrf", "weighted"}
    /\ fused_results' = SimpleMerge(vector_results, keyword_results, request.top_k)
    /\ calls' = Append(calls, Call("simple_merge", request.top_k))
    /\ pc' = "summary"
    /\ UNCHANGED <<phase, search_engine, request, vector_results, keyword_results, response>>

\* Variant of Summarize: a keyword hit is the mapping's own dict, so the
\* summary attached to a result is written into bm25_doc_mapping.
SummarizeThroughMapping ==
    /\ pc = "summary"
    /\ fused_results' = AddSummaries(fused_results)
    /\ search_engine' =
         Some([engine EXCEPT !.bm25_doc_mapping =
                 [idx \in DOMAIN @ |->
                     IF \E i \in DOMAIN fused_results :
                            /\ fused_results[i].id = @[idx].id
                            /\ fused_results[i].id \notin Ids(vector_results)
                     THEN ("summary" :> CreateSummary(@[idx].content, SummaryMaxLength))
                              @@ @[idx]
                     ELSE @[idx]]])
    /\ calls' = calls \o [i \in DOMAIN fused_results |->
                             Call("_create_summary", fused_results[i].id)]
    /\ pc' = "respond"
    /\ UNCHANGED <<phase, request, vector_results, keyword_results, response>>

\* 3. the summaries, and search returns.  (In the else branch the entries of
\* fused_results are the hit objects of vector_results and keyword_results, which
\* gain the summary key too; nothing reads them afterwards.)
Summarize ==
    /\ pc = "summary"
    /\ fused_results' = AddSummaries(fused_results)
    /\ calls' = calls \o [i \in DOMAIN fused_results |->
                             Call("_create_summary", fused_results[i].id)]
    /\ pc' = "respond"
    /\ UNCHANGED <<phase, search_engine, request, vector_results, keyword_results, response>>

\* Variant of Respond: a search without results is answered as an error.
RespondErrorOnEmpty ==
    /\ pc = "respond"
    /\ response' = IF fused_results = <<>>
                   THEN Some([status |-> 500])
                   ELSE Some([status        |-> 200,
                              query         |-> request.query,
                              total_results |-> Len(fused_results),
                              results       |-> [i \in DOMAIN fused_results |->
                                                    SearchResult(fused_results[i])]])
    /\ pc' = "done"
    /\ UNCHANGED <<phase, search_engine, request, vector_results, keyword_results,
                   fused_results, calls>>

\* The handler turns the results into the SearchResponse.
Respond ==
    /\ pc = "respond"
    /\ response' = Some([status        |-> 200,
                         query         |-> request.query,
                         total_results |-> Len(fused_results),
                         results       |-> [i \in DOMAIN fused_results |->
                                               SearchResult(fused_results[i])]])
    /\ pc' = "done"
    /\ UNCHANGED <<phase, search_engine, request, vector_results, keyword_results,
                   fused_results, calls>>

\* The request is over; its hits and results are dropped.
Finish ==
    /\ pc = "done"
    /\ pc' = "idle"
    /\ request' = NoRequest
    /\ vector_results' = <<>>
    /\ keyword_results' = <<>>
    /\ fused_results' = <<>>
    /\ response' = None
    /\ calls' = <<>>
    /\ UNCHANGED <<phase, search_engine>>

Next ==
    \/ StartupOk
    \/ StartupFailed
    \/ Receive
    \/ VectorSearch
    \/ VectorSearchFailed
    \/ KeywordSearch
    \/ KeywordSearchNoTokens
    \/ KeywordSearchFailed
    \/ FuseRrf
    \/ FuseWeighted
    \/ FuseSimple
    \/ Summarize
    \/ Respond
    \/ Finish

Spec == Init /\ [][Next]_vars

\* ------------------------------- the app under a host that always dispatches

\* Variant of ReceiveUninitialized: the handler does not test search_engine.
ReceiveUninitializedUnchecked ==
    /\ search_engine = None
    /\ pc = "idle"
    /\ \E query \in Queries, top_k \in TopKs, fusion_method \in FusionMethods :
         request' = [query |-> query, top_k |-> top_k, fusion_method |-> fusion_method]
    /\ calls' = <<>>
    /\ response' = None
    /\ pc' = "vector_search"
    /\ UNCHANGED <<phase, search_engine, vector_results, keyword_results, fused_results>>

\* POST /search dispatched while search_engine is still None (before
\* startup_event has run or after it has raised): if not search_engine:
\* raise HTTPException(status_code=503).
ReceiveUninitialized ==
    /\ search_engine = None
    /\ pc = "idle"
    /\ \E query \in Queries, top_k \in TopKs, fusion_method \in FusionMethods :
         request' = [query |-> query, top_k |-> top_k, fusion_method |-> fusion_method]
    /\ calls' = <<>>
    /\ response' = Some([status |-> 503])
    /\ pc' = "done"
    /\ UNCHANGED <<phase, search_engine, vector_results, keyword_results, fused_results>>

NextAnyHost ==
    \/ Next
    \/ ReceiveUninitialized

\* The app object served by a host that dispatches requests whatever the
\* outcome of startup_event.
SpecAnyHost == Init /\ [][NextAnyHost]_vars

\* ------------------------------------ fusion applied to drawn candidate lists

\* top_k values handed to the fusion step, drawn independently of the lists.
FusionTopKs == 1..(MaxTopK + 1)

FusionBundle == [collection |-> {PostA, PostB, PostC}, doc_mapping |-> <<PostA, PostB, PostC>>]

\* Every list _vector_search can format from the bundle's collection.
VectorLists ==
    UNION { {VectorResults(results) : results \in QueryResults(FusionBundle.collection, n)}
            : n \in 0..Cardinality(FusionBundle.collection) }

\* Every list _keyword_search can format from the bundle's mapping.
KeywordLists ==
    UNION { {KeywordResults(top_indices, scores, FusionBundle.doc_mapping)
               : top_indices \in TopIndices(scores, n)}
            : scores \in [1..Len(FusionBundle.doc_mapping) -> RawScores],
              n \in 0..Len(FusionBundle.doc_mapping) }

\* search() at the fusion branch, with the two candidate lists and top_k as
\* the inputs of the fusion.
InitFusion ==
    /\ phase = "serving"
    /\ search_engine = Some(HybridSearchEngine(FusionBundle))
    /\ pc = "fusion"
    /\ \E top_k \in FusionTopKs, fusion_method \in {"rrf", "weighted", "simple"} :
         request = [query |-> <<"a", "b">>, top_k |-> top_k, fusion_method |-> fusion_method]
    /\ vector_results \in VectorLists
    /\ keyword_results \in KeywordLists
    /\ fused_results = <<>>
    /\ response = None
    /\ calls = <<>>

NextFusion ==
    \/ FuseRrf
    \/ FuseWeighted
    \/ FuseSimple

SpecFusion == InitFusion /\ [][NextFusion]_vars

\* ------------------------------------- fusion at the top_k values of the UI

\* The top_k values the UI's slider sends (5..50) for which the adapters are
\* asked for about k + 1 candidates.
WideTopKs ==
    { top_k \in UiMinTopK..UiMaxTopK :
        /\ RrfK - 2 <= CandidateCount(top_k)
        /\ CandidateCount(top_k) <= RrfK + 2 }

\* The post of thread i as the crawler stores it.
WidePost(i) == Post(ToString(i), <<"t">>, <<"c">>)

\* A vector collection of threads 1..k+2 and a BM25 mapping of thread 0
\* (indexed for keywords only) and thread 1.
WideBundle ==
    [collection  |-> {WidePost(i) : i \in 1..(RrfK + 2)},
     doc_mapping |-> <<WidePost(0), WidePost(1)>>]

\* collection.query answers n rows, thread 1 nearest.
WideRows(n) == [i \in 1..n |-> [post |-> WidePost(i), distance |-> 1]]

WideKeywordLists ==
    UNION { {KeywordResults(top_indices, scores, WideBundle.doc_mapping)
               : top_indices \in TopIndices(scores, n)}
            : scores \in [1..Len(WideBundle.doc_mapping) -> RawScores],
              n \in 0..Len(WideBundle.doc_mapping) }

\* search() at a rank-reciprocal fusion of a request of the UI: the vector
\* store has returned the top_k * 2 rows asked for, or one fewer.
InitWide ==
    /\ phase = "serving"
    /\ search_engine = Some(HybridSearchEngine(WideBundle))
    /\ pc = "fusion"
    /\ \E top_k \in WideTopKs, fusion_method \in {"rrf", "weighted"} :
         /\ request = [query |-> <<"a", "b">>, top_k |-> top_k,
                       fusion_method |-> fusion_method]
         /\ \E n \in {CandidateCount(top_k) - 1, CandidateCount(top_k)} :
              vector_results = VectorResults(WideRows(n))
    /\ keyword_results \in WideKeywordLists
    /\ fused_results = <<>>
    /\ response = None
    /\ calls = <<>>

NextWide ==
    \/ FuseRrf
    \/ FuseWeighted

SpecWide == InitWide /\ [][NextWide]_vars

\* ------------------------------ the normalizer applied to drawn raw scores

WideRawScores == (0 - MaxRawScore)..MaxRawScore

\* _keyword_search right after get_scores returned; the call log holds the
\* returned score of every document.
InitNormalizer ==
    /\ phase = "serving"
    /\ search_engine = Some(HybridSearchEngine(FusionBundle))
    /\ pc = "keyword_search"
    /\ \E top_k \in TopKs :
         request = [query |-> <<"a", "b">>, top_k |-> top_k, fusion_method |-> "rrf"]
    /\ vector_results = <<>>
    /\ keyword_results = <<>>
    /\ fused_results = <<>>
    /\ response = None
    /\ \E scores \in [1..engine.bm25_model.corpus_size -> WideRawScores] :
         calls = <<Call("get_scores", <<<<"a", "b">>>>), Call("scores", scores)>>

\* The rest of _keyword_search: argsort, cut to top_k, the formatting loop.
FormatKeywordResults ==
    /\ pc = "keyword_search"
    /\ LET scores == calls[Len(calls)].arg IN
       \E top_indices \in TopIndices(scores, CandidateCount(request.top_k)) :
         keyword_results' = KeywordResults(top_indices, scores, engine.bm25_doc_mapping)
    /\ pc' = "fusion"
    /\ UNCHANGED <<phase, search_engine, request, vector_results, fused_results,
                   response, calls>>

NextNormalizer == FormatKeywordResults

SpecNormalizer == InitNormalizer /\ [][NextNormalizer]_vars

\* --------------------------------- the summary of drawn contents and limits

RECURSIVE Strings(_, _)
Strings(alphabet, n) ==
    IF n = 0 THEN {<<>>}
    ELSE LET shorter == Strings(alphabet, n - 1) IN
         shorter \cup {Append(s, c) : s \in shorter, c \in alphabet}

Contents == Strings({"x", Terminator}, MaxContentLen)

MaxLengths == 0..MaxSummaryLimit

\* _create_summary(content, max_length) is about to run.
InitSummary ==
    /\ phase = "serving"
    /\ search_engine = Some(HybridSearchEngine(FusionBundle))
    /\ pc = "summary"
    /\ request = [query |-> <<"a", "b">>, top_k |-> 1, fusion_method |-> "rrf"]
    /\ vector_results = <<>>
    /\ keyword_results = <<>>
    /\ fused_results = <<>>
    /\ response = None
    /\ \E content \in Contents, max_length \in MaxLengths :
         calls = <<Call("_create_summary",
                        [content |-> content, max_length |-> max_length])>>

\* _create_summary runs and its value is stored as the entry's summary.
CreateSummaryCall ==
    /\ pc = "summary"
    /\ LET arg == calls[Len(calls)].arg IN
       fused_results' = << [content |-> arg.content,
                            summary |-> CreateSummary(arg.content, arg.max_length)] >>
    /\ pc' = "respond"
    /\ UNCHANGED <<phase, search_engine, request, vector_results, keyword_results,
                   response, calls>>

NextSummary == CreateSummaryCall

SpecSummary == InitSummary /\ [][NextSummary]_vars

\* ------------------------------------------------------------- properties

\* search() has fused the two lists of the current request.
Fused == pc \in {"summary", "respond"} \/ (pc = "done" /\ response[1].status = 200)

\* The handler has answered 200.
Answered == pc = "done" /\ response[1].status = 200

IsRrf == request.fusion_method \in {"rrf", "weighted"}

DistinctIds(results) ==
    \A i, j \in DOMAIN results : i # j => results[i].id # results[j].id

PositionOf(results, doc_id) == CHOOSE i \in DOMAIN results : results[i].id = doc_id

CandidateIds == Ids(vector_results) \cup Ids(keyword_results)

\* score = 1/x + 1/y, as exact fractions.
IsSumOfReciprocals(score, x, y) == score[1] * (x * y) = score[2] * (x + y)

\* C1: under every fusion policy, no two entries of the fused list, and no two
\* results of the response, carry the same document id, also when an id occurs
\* in both candidate lists (or twice in one).
C1_UniqueIds ==
    /\ Fused => DistinctIds(fused_results)
    /\ Answered => DistinctIds(response[1].results)

\* C1 witness: a 200 response with at least two results, one of them a
\* document that both adapters returned.
C1_Witness ==
    /\ Answered
    /\ Len(response[1].results) >= 2
    /\ \E i \in DOMAIN response[1].results :
         response[1].results[i].id \in Ids(vector_results) \cap Ids(keyword_results)

\* C2: in rank-reciprocal fusion with k = 60, when the ids of each input list
\* are distinct, a document at rank r1 in the vector list and r2 in the keyword
\* list scores exactly 1/(k+r1) + 1/(k+r2), and a document in one list only, at
\* rank r, scores exactly 1/(k+r) + 1/(k+(k+1)).
C2_RrfScore ==
    (Fused /\ IsRrf /\ DistinctIds(vector_results) /\ DistinctIds(keyword_results)) =>
        \A i \in DOMAIN fused_results :
            LET e   == fused_results[i]
                inV == e.id \in Ids(vector_results)
                inK == e.id \in Ids(keyword_results)
                r1  == PositionOf(vector_results, e.id)
                r2  == PositionOf(keyword_results, e.id)
            IN /\ (inV /\ inK)  => IsSumOfReciprocals(e.score, RrfK + r1, RrfK + r2)
               /\ (inV /\ ~inK) => IsSumOfReciprocals(e.score, RrfK + r1, RrfK + (RrfK + 1))
               /\ (~inV /\ inK) => IsSumOfReciprocals(e.score, RrfK + r2, RrfK + (RrfK + 1))

\* C2 witness: a rank-reciprocal fusion of lists with distinct ids whose result
\* holds a document of both lists, at different ranks, and a document of one
\* list only.
C2_Witness ==
    /\ Fused /\ IsRrf
    /\ DistinctIds(vector_results) /\ DistinctIds(keyword_results)
    /\ \E i, j \in DOMAIN fused_results :
         /\ fused_results[i].id \in Ids(vector_results) \cap Ids(keyword_results)
         /\ PositionOf(vector_results, fused_results[i].id)
                # PositionOf(keyword_results, fused_results[i].id)
         /\ fused_results[j].id \notin Ids(vector_results) \cap Ids(keyword_results)

\* C3: under every fusion policy the fused list has min(top_k, number of
\* distinct ids of the two candidate lists) entries.
C3_FusedLength ==
    Fused => Len(fused_results) = Min(request.top_k, Cardinality(CandidateIds))

\* C3 witness: a fused list cut to top_k, from lists that share a document.
C3_Witness ==
    /\ Fused
    /\ Cardinality(CandidateIds) > request.top_k
    /\ Ids(vector_results) \cap Ids(keyword_results) # {}
    /\ Len(fused_results) = request.top_k

\* The score fusion gives a candidate id: the rank-reciprocal score, or in the
\* simple merge the score of the hit kept for the id.
CandidateScore(doc_id) ==
    IF IsRrf
    THEN RrfEntry(doc_id, vector_results, keyword_results, RrfK).score
    ELSE FirstWithId(InsertKeyword(InsertVector(<<>>, vector_results), keyword_results),
                     doc_id).score

\* C4: under every fusion policy the fused list is in non-increasing order of
\* score, and no candidate left out of it scores strictly higher than an entry
\* of it.
C4_SortedBestKept ==
    Fused =>
        /\ \A i, j \in DOMAIN fused_results :
             i < j => RatLeq(fused_results[j].score, fused_results[i].score)
        /\ \A doc_id \in CandidateIds \ Ids(fused_results) :
             \A i \in DOMAIN fused_results :
                 RatLeq(CandidateScore(doc_id), fused_results[i].score)

\* C4 witness: a fused list of two entries of different score, with a candidate
\* left out that scores strictly less than both.
C4_Witness ==
    /\ Fused
    /\ Len(fused_results) = 2
    /\ RatLess(fused_results[2].score, fused_results[1].score)
    /\ \E doc_id \in CandidateIds \ Ids(fused_results) :
         RatLess(CandidateScore(doc_id), fused_results[2].score)

HasCall(op) == \E i \in DOMAIN calls : calls[i].op = op

VectorFailed == HasCall("vector_search_failed")

KeywordFailed == HasCall("keyword_search_failed")

AdapterOps == {"_vector_search", "vector_search_failed", "_keyword_search",
               "get_scores", "keyword_search_failed"}

FusionOps == {"_rrf_fusion", "simple_merge"}

\* C5: a request whose fusion_method is none of rrf, weighted, simple fails
\* with an input error before any adapter is invoked, and is never treated as
\* one of the valid policies.
C5_UnknownMethodRejected ==
    (pc # "idle" /\ request.fusion_method \notin {"rrf", "weighted", "simple"}) =>
        /\ pc = "done"
        /\ response[1].status = 400
        /\ calls = <<>>
        /\ fused_results = <<>>

\* C6: a request whose query is empty or only whitespace is answered 400 at
\* once: no adapter is called and fusion is never reached.
C6_BlankQueryRejected ==
    (pc # "idle" /\ (request.query = <<>> \/ \A i \in DOMAIN request.query :
                                                IsWhite(request.query[i]))) =>
        /\ pc = "done"
        /\ response[1].status = 400
        /\ calls = <<>>
        /\ vector_results = <<>> /\ keyword_results = <<>> /\ fused_results = <<>>

\* C6 witness: a whitespace-only query answered 400.
C6_Witness ==
    /\ pc = "done"
    /\ request.query = <<" ">>
    /\ response[1].status = 400

\* C7: when an adapter's backend raises, that adapter's list is empty, the
\* other adapter's list is left as it was returned, fusion and the summaries
\* run on it, and the answer is a 200 built from the other list alone.
C7_FailureDegradesToEmpty ==
    /\ [](/\ VectorFailed => vector_results = <<>>
          /\ KeywordFailed => keyword_results = <<>>
          /\ (pc = "done" /\ (VectorFailed \/ KeywordFailed)) =>
                /\ response[1].status = 200
                /\ HasCall("_rrf_fusion") \/ HasCall("simple_merge")
                /\ response[1].total_results = Min(request.top_k, Cardinality(CandidateIds))
                /\ \A i \in DOMAIN response[1].results :
                     response[1].results[i].id \in CandidateIds)
    /\ [][/\ pc = "keyword_search" => vector_results' = vector_results
          /\ pc \in {"fusion", "summary", "respond"} =>
                (vector_results' = vector_results /\ keyword_results' = keyword_results)]_vars

\* C7 witness: the vector backend raised, the keyword adapter returned hits,
\* and the answer is a 200 carrying them.
C7_Witness ==
    /\ pc = "done"
    /\ VectorFailed /\ ~KeywordFailed
    /\ keyword_results # <<>>
    /\ response[1].status = 200
    /\ response[1].total_results >= 1

\* C8: when both adapters return empty lists, the answer is a 200 with
\* total_results = 0 and no results, under every fusion policy.
C8_BothEmptySucceeds ==
    (pc = "done" /\ HasCall("_keyword_search")
        /\ vector_results = <<>> /\ keyword_results = <<>>) =>
        /\ response[1].status = 200
        /\ response[1].total_results = 0
        /\ response[1].results = <<>>

\* C8 witness: both backends raised and the answer is an empty 200.
C8_Witness ==
    /\ pc = "done"
    /\ VectorFailed /\ KeywordFailed
    /\ response[1].status = 200
    /\ response[1].total_results = 0

\* The ids summarized so far, in order.
SummarizedIds ==
    LET idx == {i \in DOMAIN calls : calls[i].op = "_create_summary"}
    IN [n \in 1..Cardinality(idx) |->
           calls[CHOOSE i \in idx : Cardinality({j \in idx : j < i}) = n - 1].arg]

\* C9: within a request the steps run retrieve, fuse, summarize, answer:
\* fusion starts only after both adapter calls are over and no adapter runs
\* after it, summaries are made after fusion and only for the entries of the
\* fused list, and the answer comes last.
C9_StepOrder ==
    /\ \A i \in DOMAIN calls :
         /\ calls[i].op \in FusionOps =>
              /\ \E j \in 1..(i - 1) : calls[j].op = "_vector_search"
              /\ \E j \in 1..(i - 1) : calls[j].op = "_keyword_search"
              /\ \A j \in (i + 1)..Len(calls) : calls[j].op = "_create_summary"
         /\ calls[i].op = "_create_summary" =>
              /\ \E j \in 1..(i - 1) : calls[j].op \in FusionOps
              /\ calls[i].arg \in Ids(fused_results)
    /\ pc \in {"vector_search", "keyword_search", "fusion"} =>
         (fused_results = <<>> /\ \A i \in DOMAIN calls : calls[i].op \in AdapterOps)
    /\ pc = "fusion" => (HasCall("_vector_search") /\ HasCall("_keyword_search"))
    /\ pc = "summary" => SummarizedIds = <<>>
    /\ (pc = "respond" \/ Answered) =>
         SummarizedIds = [i \in DOMAIN fused_results |-> fused_results[i].id]
    /\ pc \in {"vector_search", "keyword_search", "fusion", "summary", "respond"} =>
         response = None

\* C9 witness: an answered request in which both adapters returned hits and two
\* fused entries were summarized.
C9_Witness ==
    /\ Answered
    /\ vector_results # <<>> /\ keyword_results # <<>>
    /\ Len(SummarizedIds) = 2

\* C10: search asks each of the two adapters for exactly 2 * top_k candidates
\* (neither returns more), and the result is cut to top_k.
C10_Overshoot ==
    /\ \A i \in DOMAIN calls :
         calls[i].op \in {"_vector_search", "_keyword_search"} =>
             calls[i].arg = 2 * request.top_k
    /\ Len(vector_results) <= 2 * request.top_k
    /\ Len(keyword_results) <= 2 * request.top_k
    /\ Fused => Len(fused_results) <= request.top_k
    /\ Answered => response[1].total_results <= request.top_k

\* C10 witness: top_k = 1, each adapter returned two hits, one result.
C10_Witness ==
    /\ Answered
    /\ request.top_k = 1
    /\ Len(vector_results) = 2 /\ Len(keyword_results) = 2
    /\ response[1].total_results = 1

IdList(results) == [i \in DOMAIN results |-> results[i].id]

\* C11: for vector list [A, B] and keyword list [B, C] with k = 60, the
\* rank-reciprocal fusion returns B first with score 1/62 + 1/61, then A
\* with 1/61 + 1/121, then C with 1/62 + 1/121 (cut to top_k entries).
C11_WorkedExample ==
    (/\ pc = "summary"
     /\ request.fusion_method = "rrf"
     /\ IdList(vector_results) = <<"A", "B">>
     /\ IdList(keyword_results) = <<"B", "C">>)
    => LET n == Min(request.top_k, 3) IN
       /\ Len(fused_results) = n
       /\ fused_results[1].id = "B"
       /\ RatEq(fused_results[1].score, RatAdd(Rat(1, 62), Rat(1, 61)))
       /\ n >= 2 => /\ fused_results[2].id = "A"
                     /\ RatEq(fused_results[2].score, RatAdd(Rat(1, 61), Rat(1, 121)))
       /\ n >= 3 => /\ fused_results[3].id = "C"
                     /\ RatEq(fused_results[3].score, RatAdd(Rat(1, 62), Rat(1, 121)))

C11_Witness ==
    /\ pc = "summary"
    /\ request.fusion_method = "rrf"
    /\ IdList(vector_results) = <<"A", "B">>
    /\ IdList(keyword_results) = <<"B", "C">>
    /\ IdList(fused_results) = <<"B", "A", "C">>

\* C12: rank-reciprocal fusion is deterministic: for the same two lists,
\* top_k and k, every iteration order of the candidate-id set yields the
\* same ordered list (ties are settled by a fixed secondary key).
C12_Deterministic ==
    (pc = "fusion" /\ request.fusion_method = "rrf")
    => \A order1, order2 \in IterationOrders(AllDocIds(vector_results, keyword_results)) :
         RrfFusion(vector_results, keyword_results, request.top_k, RrfK, order1)
           = RrfFusion(vector_results, keyword_results, request.top_k, RrfK, order2)

\* The raw score of the document a keyword hit was formatted from (the ids
\* of the mapping are distinct in the normalizer's specification).
RawScoreOf(hit) ==
    LET scores == calls[Len(calls)].arg
        idx    == CHOOSE i \in DOMAIN scores : engine.bm25_doc_mapping[i].id = hit.id
    IN scores[idx]

\* C13: the normalized score of a keyword hit with raw score s is
\* clamp((s + 2) / 4, 0, 1): 0 for s = -2 and below, 1 for s = 2 and above,
\* (s + 2) / 4 between; it lies in [0, 1] and never decreases as s grows.
C13_Normalizer ==
    pc = "fusion" =>
      \A i \in DOMAIN keyword_results :
        LET hit == keyword_results[i]
            s   == RawScoreOf(hit)
        IN /\ s = -2 => hit.score[1] = 0
           /\ s = 2 => hit.score[1] = hit.score[2]
           /\ s < -2 => hit.score[1] = 0
           /\ s > 2 => hit.score[1] = hit.score[2]
           /\ (-2 <= s /\ s <= 2) => 4 * hit.score[1] = (s + 2) * hit.score[2]
           /\ hit.score[2] > 0
           /\ 0 <= hit.score[1] /\ hit.score[1] <= hit.score[2]
           /\ \A j \in DOMAIN keyword_results :
                RawScoreOf(keyword_results[j]) <= s
                  => keyword_results[j].score[1] * hit.score[2]
                       <= hit.score[1] * keyword_results[j].score[2]

C13_Witness ==
    /\ pc = "fusion"
    /\ \E i, j, l \in DOMAIN keyword_results :
         /\ RawScoreOf(keyword_results[i]) = MaxRawScore
         /\ RawScoreOf(keyword_results[j]) = 1
         /\ RawScoreOf(keyword_results[l]) = 0 - MaxRawScore

\* The arguments of the _create_summary call of the summary's specification.
SummaryArg == calls[Len(calls)].arg

\* C14: when len(content) <= max_length, _create_summary returns the content
\* unchanged.
C14_ShortContentUnchanged ==
    (pc = "respond" /\ Len(SummaryArg.content) <= SummaryArg.max_length)
    => fused_results[1].summary = SummaryArg.content

C14_Witness ==
    /\ pc = "respond"
    /\ Len(SummaryArg.content) = SummaryArg.max_length
    /\ SummaryArg.max_length >= 2
    /\ SummaryArg.content[1] = Terminator
    /\ fused_results[1].summary = SummaryArg.content

\* The value is not the hard-truncation fallback content[:max_length] + "...".
SentenceBoundary ==
    fused_results[1].summary # Take(SummaryArg.content, SummaryArg.max_length) \o Ellipsis

\* C15: for content longer than max_length, a summary cut at a sentence
\* boundary is at most max_length + 1 long.
C15_BoundaryLength ==
    (pc = "respond" /\ Len(SummaryArg.content) > SummaryArg.max_length /\ SentenceBoundary)
    => Len(fused_results[1].summary) <= SummaryArg.max_length + 1

C15_Witness ==
    /\ pc = "respond"
    /\ Len(SummaryArg.content) > SummaryArg.max_length
    /\ SentenceBoundary
    /\ Len(fused_results[1].summary) = SummaryArg.max_length + 1

\* What search returns under "rrf" for the lists and top_k of the current
\* request: the fused lists before the summaries, one per iteration order.
RrfOutcomes ==
    { RrfFusion(vector_results, keyword_results, request.top_k, RrfK, order) :
        order \in IterationOrders(AllDocIds(vector_results, keyword_results)) }

\* C16: a search with fusion_method "weighted" yields an ordered list, with
\* scores, summaries and response entries, that the same search with "rrf"
\* yields on the same vector hits, keyword hits and top_k.
C16_WeightedIsRrf ==
    request.fusion_method = "weighted" =>
      /\ pc = "summary" => fused_results \in RrfOutcomes
      /\ pc = "respond" => fused_results \in {AddSummaries(r) : r \in RrfOutcomes}
      /\ (pc = "done" /\ response[1].status = 200) =>
            response[1].results \in
              { [i \in DOMAIN r |-> SearchResult(AddSummaries(r)[i])] : r \in RrfOutcomes }

C16_Witness ==
    /\ request.fusion_method = "weighted"
    /\ pc = "done"
    /\ response[1].status = 200
    /\ Len(response[1].results) = 2
    /\ Ids(vector_results) \cap Ids(keyword_results) # {}
    /\ Ids(vector_results) # Ids(keyword_results)

\* C17: after a failed startup the engine stays uninitialized, and while it
\* is uninitialized no request reaches a retrieval adapter or the fusion:
\* every /search call is answered 503.
C17_NoSearchWithoutEngine ==
    /\ phase = "exited" => search_engine = None
    /\ search_engine = None =>
         /\ pc \in {"idle", "done"}
         /\ \A i \in DOMAIN calls : calls[i].op \notin AdapterOps \cup FusionOps
         /\ vector_results = <<>> /\ keyword_results = <<>> /\ fused_results = <<>>
         /\ pc = "done" => response = Some([status |-> 503])

C17_Witness ==
    /\ phase = "exited"
    /\ pc = "done"
    /\ \neg IsBlank(request.query)
    /\ response = Some([status |-> 503])

\* The rank field is absent when the id is not in the list; otherwise it is
\* a 1-based position of the list that holds the id (the position, when the
\* id occurs once; the last such position, when a list repeats an id).
RankReported(rank, results, doc_id) ==
    IF doc_id \notin Ids(results) THEN rank = None
    ELSE /\ rank # None
         /\ rank[1] \in 1..Len(results)
         /\ results[rank[1]].id = doc_id
         /\ \A later \in (rank[1] + 1)..Len(results) : results[later].id # doc_id

\* C18: in every entry of a rank-reciprocal fusion, vector_rank
\* (keyword_rank) is non-null exactly when the id is in the vector (keyword)
\* candidate list, and then it is the id's 1-based position in that list; a
\* document absent from a list reports null, never the penalty rank.
C18_RankFields ==
    (Fused /\ IsRrf) =>
      \A i \in DOMAIN fused_results :
        LET e == fused_results[i] IN
        /\ RankReported(e.vector_rank, vector_results, e.id)
        /\ RankReported(e.keyword_rank, keyword_results, e.id)

C18_Witness ==
    /\ Fused /\ IsRrf
    /\ DistinctIds(vector_results) /\ DistinctIds(keyword_results)
    /\ \E i, j \in DOMAIN fused_results :
         /\ fused_results[i].vector_rank = None
         /\ fused_results[i].keyword_rank = Some(1)
         /\ fused_results[j].vector_rank = Some(1)
         /\ fused_results[j].keyword_rank = Some(2)

\* The hit whose fields the entry of doc_id must show: the vector hit when
\* the id is in the vector list, the keyword hit only otherwise.
PreferredHit(doc_id) ==
    IF doc_id \in Ids(vector_results)
    THEN FirstWithId(vector_results, doc_id)
    ELSE FirstWithId(keyword_results, doc_id)

\* C19: under every fusion policy the title and content of a fused entry and
\* of its response result are those of the vector hit when the id is in the
\* vector list, and those of the keyword hit only when it is not; in the
\* simple merge the entry also keeps that hit's score.
C19_VectorHitPreferred ==
    /\ Fused =>
         \A i \in DOMAIN fused_results :
           LET e == fused_results[i] IN
           /\ e.title = PreferredHit(e.id).title
           /\ e.content = PreferredHit(e.id).content
           /\ ~IsRrf => e.score = PreferredHit(e.id).score
    /\ Answered =>
         \A i \in DOMAIN response[1].results :
           LET e == response[1].results[i] IN
           /\ e.title = PreferredHit(e.id).title
           /\ e.content = PreferredHit(e.id).content
           /\ ~IsRrf => e.score = PreferredHit(e.id).score

C19_Witness ==
    /\ Answered
    /\ request.fusion_method = "simple"
    /\ \E i \in DOMAIN response[1].results :
         LET e == response[1].results[i] IN
         /\ e.id \in Ids(vector_results) \cap Ids(keyword_results)
         /\ FirstWithId(keyword_results, e.id).content # e.content
         /\ FirstWithId(keyword_results, e.id).score # e.score

\* The contribution _rrf_fusion computes for doc_id from the vector list and
\* from the keyword list.
VectorContribution(doc_id) ==
    RrfEntry(doc_id, vector_results, keyword_results, RrfK).vector_score

KeywordContribution(doc_id) ==
    RrfEntry(doc_id, vector_results, keyword_results, RrfK).keyword_score

\* C20: in a rank-reciprocal fusion every returned hit has a rank strictly
\* better than the penalty rank k + 1 = 61, so a document of a list never
\* gets a smaller contribution from that list than a document absent from it.
C20_PenaltyWorst ==
    (pc = "summary" /\ IsRrf) =>
      /\ \A rank \in DOMAIN vector_results : rank < PenaltyRank(RrfK)
      /\ \A rank \in DOMAIN keyword_results : rank < PenaltyRank(RrfK)
      /\ \A present \in Ids(vector_results), absent \in CandidateIds \ Ids(vector_results) :
           RatLeq(VectorContribution(absent), VectorContribution(present))
      /\ \A present \in Ids(keyword_results), absent \in CandidateIds \ Ids(keyword_results) :
           RatLeq(KeywordContribution(absent), KeywordContribution(present))

\* The first sentence of the content handed to _create_summary.
LeadingSentence == Head(Split(SummaryArg.content))

\* C21: for content longer than max_length whose leading sentence is at
\* most max_length long (exactly max_length included), _create_summary
\* returns whole sentences closed by one terminator, not the truncation
\* with the ellipsis; the truncation is returned only when the leading
\* sentence is longer than max_length.
C21_SentenceFits ==
    (pc = "respond" /\ Len(SummaryArg.content) > SummaryArg.max_length
                    /\ LeadingSentence # <<>>) =>
      /\ Len(LeadingSentence) <= SummaryArg.max_length =>
            /\ SentenceBoundary
            /\ fused_results[1].summary[Len(fused_results[1].summary)] = Terminator
      /\ ~SentenceBoundary => Len(LeadingSentence) > SummaryArg.max_length

\* A token passes the filter: trimmed, it is longer than one character (and
\* so is not whitespace).
Survives(token) == Len(Strip(token)) > 1

\* No piece of the query, however the segmenter cuts it, passes the filter.
NoTokenCanSurvive ==
    \A i, j \in DOMAIN request.query :
        i <= j => ~Survives(SubSeq(request.query, i, j))

\* C22: the BM25 model scores only trimmed tokens longer than one character
\* that are not whitespace, and at least one of them; when no token of the
\* query survives the filter the adapter returns an empty list and the
\* scoring is not called for that request.
C22_ShortTokensDropped ==
    /\ \A i \in DOMAIN calls :
         calls[i].op = "get_scores" =>
           /\ calls[i].arg # <<>>
           /\ \A t \in DOMAIN calls[i].arg :
                LET token == calls[i].arg[t] IN
                /\ Len(token) > 1
                /\ ~IsSpace(token)
                /\ Strip(token) = token
    /\ (HasCall("_keyword_search") /\ ~HasCall("get_scores")) => keyword_results = <<>>
    /\ (HasCall("_keyword_search") /\ NoTokenCanSurvive) =>
         /\ ~HasCall("get_scores")
         /\ keyword_results = <<>>

C22_Witness ==
    /\ pc = "fusion"
    /\ request.query = <<"a">>
    /\ HasCall("_keyword_search")
    /\ ~KeywordFailed
    /\ vector_results # <<>>
    /\ keyword_results = <<>>

\* The engines startup_event can build.
LoadedEngines == {HybridSearchEngine(bundle) : bundle \in Bundles}

\* Every hit of the request in progress shows a post as the loaded engine
\* holds it.
HitsFromEngine ==
    /\ \A i \in DOMAIN vector_results :
         \E post \in engine.collection :
           /\ vector_results[i].id = post.id
           /\ vector_results[i].title = post.title
           /\ vector_results[i].content = ChromaDocument(post)
    /\ \A i \in DOMAIN keyword_results :
         \E idx \in DOMAIN engine.bm25_doc_mapping :
           /\ keyword_results[i].id = engine.bm25_doc_mapping[idx].id
           /\ keyword_results[i].title = engine.bm25_doc_mapping[idx].title
           /\ keyword_results[i].content = engine.bm25_doc_mapping[idx].content

\* C23: search only reads the engine: no step of any request, failed
\* backends included, changes the BM25 document mapping, the BM25 model or
\* the vector collection loaded at startup, and the hits of every request
\* show the posts as they were loaded.
C23_EngineReadOnly ==
    /\ [](search_engine # None => (search_engine[1] \in LoadedEngines /\ HitsFromEngine))
    /\ [][search_engine # None => search_engine' = search_engine]_vars

C23_Witness ==
    /\ Answered
    /\ request.fusion_method = "simple"
    /\ VectorFailed
    /\ search_engine[1] \in LoadedEngines
    /\ \E i \in DOMAIN response[1].results :
         /\ response[1].results[i].summary # <<>>
         /\ response[1].results[i].id \in Ids(keyword_results)

\* C24: for content longer than max_length, a summary cut at a sentence
\* boundary is a prefix of the content that ends with the terminator: the
\* leading sentences in order, each followed by its terminator, none
\* skipped, also when the content starts with the terminator or holds empty
\* sentences.
C24_SummaryIsPrefix ==
    (pc = "respond" /\ Len(SummaryArg.content) > SummaryArg.max_length /\ SentenceBoundary)
    => LET summary == fused_results[1].summary IN
       /\ Len(summary) <= Len(SummaryArg.content)
       /\ summary = SubSeq(SummaryArg.content, 1, Len(summary))
       /\ summary[Len(summary)] = Terminator

====
